---- MODULE Spec2Model ----
(***************************************************************************)
(* Model of bot.py: the anonymous-chat matchmaking engine (waiting queue,  *)
(* pairing table, JSON snapshot, per-user rate limiter, relay dispatcher). *)
(*                                                                         *)
(* Every handler is one action: Spec, SpecRelay and SpecRestore take one    *)
(* update at a time, each handler running to completion before the next    *)
(* begins; SpecConc splits cmd_anon_next and cmd_anon_stop at their awaits *)
(* and interleaves the handlers of different users.                        *)
(* The store operations are operators on a record of the store, so that a  *)
(* handler is the composition of the calls it makes.                       *)
(***************************************************************************)
EXTENDS Integers, Sequences, FiniteSets, TLC

VARIABLES
    phase,        \* "boot": module imported, load_state() not yet called; "run": polling
    queue,        \* bot.py:72   list of waiting user ids
    sessions,     \* bot.py:73   dict uid -> partner uid
    last_time,    \* bot.py:74   dict uid -> time of the last accepted relay
    state_file,   \* content of the file STATE_FILE on stable storage
    writeFailed,  \* a write or removal of STATE_FILE has failed since Init
    clock,        \* value time.time() returns, in ticks of TickMs milliseconds
    ADMIN_IDS,    \* bot.py:49   configured administrators
    GROUP_ID,     \* bot.py:56   moderation destination, or None
    relayed,      \* history: per sender, the clock of its last copy_message in this run
    pending,      \* per user, the handler of that user that is suspended at an await
    last          \* the handler that ran last: its input, return values and sends

vars == <<phase, queue, sessions, last_time, state_file, writeFailed, clock,
          ADMIN_IDS, GROUP_ID, relayed, pending, last>>

-----------------------------------------------------------------------------
(* Bounds *)

FirstUser == 9      \* smallest user id; ids cross from one to two digits
MaxUser == 3        \* number of end users
TickMs == 650       \* the clock advances in steps of this many milliseconds
MaxTicks == 2       \* the clock stops advancing after this many steps
MaxMembers == 2     \* members of the "sessions" object of a snapshot read at start
MaxQueue == 2       \* length of the "queue" list of a snapshot read at start

Users == FirstUser .. (FirstUser + MaxUser - 1)

-----------------------------------------------------------------------------
(* Python values *)

\* Optional[int]: None is the empty tuple, a value x is <<x>>.
None == <<>>
Some(x) == <<x>>

\* truth value of an Optional[int] in "if other:" -- None and 0 are false
Truthy(o) == o # None /\ o[1] # 0

EmptyDict == [k \in {} |-> 0]

\* dict.pop(k, None) / del, as a function on the remaining keys
DictPop(d, k) == [x \in (DOMAIN d) \ {k} |-> d[x]]

\* dict[k] = v
DictSet(d, k, v) == [x \in (DOMAIN d) \cup {k} |-> IF x = k THEN v ELSE d[x]]

\* dict.get(k)
DictGet(d, k) == IF k \in DOMAIN d THEN Some(d[k]) ELSE None

\* x in list
InList(q, x) == \E i \in 1..Len(q) : q[i] = x

\* list.remove(x): removes the first occurrence
ListRemove(q, x) ==
    IF ~InList(q, x) THEN q
    ELSE LET i == CHOOSE j \in 1..Len(q) : q[j] = x /\ \A m \in 1..(j-1) : q[m] # x
         IN  SubSeq(q, 1, i-1) \o SubSeq(q, i+1, Len(q))

-----------------------------------------------------------------------------
(* JSON documents, as json.dump writes them and json.load reads them *)

\* A JSON value is a record with a tag t and one field per kind of content:
\* n the number, s the characters of a string, l the elements of a list,
\* m the members [k |-> characters, v |-> JSON value] of an object.
JInt(n)  == [t |-> "int",  n |-> n, s |-> <<>>, l |-> <<>>, m |-> <<>>]
JStr(s)  == [t |-> "str",  n |-> 0, s |-> s,    l |-> <<>>, m |-> <<>>]
JList(l) == [t |-> "list", n |-> 0, s |-> <<>>, l |-> l,    m |-> <<>>]
JObj(m)  == [t |-> "obj",  n |-> 0, s |-> <<>>, l |-> <<>>, m |-> m]
JNull    == [t |-> "null", n |-> 0, s |-> <<>>, l |-> <<>>, m |-> <<>>]
JMissing == [t |-> "missing", n |-> 0, s |-> <<>>, l |-> <<>>, m |-> <<>>]   \* key not in the object

\* the top level of a document: an object, reduced to the two keys the program
\* reads, or a value that is no object
JTop(q, s) == [t |-> "dict", queue |-> q, sessions |-> s]
JNotDict == [t |-> "other", queue |-> JMissing, sessions |-> JMissing]

DigitChar == <<"0", "1", "2", "3", "4", "5", "6", "7", "8", "9">>

\* str(n) as json.dump applies it to an int key
RECURSIVE str(_)
str(n) ==
    IF n < 0 THEN <<"-">> \o str(-n)
    ELSE IF n < 10 THEN <<DigitChar[n + 1]>>
    ELSE str(n \div 10) \o <<DigitChar[(n % 10) + 1]>>

IsDigit(c) == \E i \in 1..10 : DigitChar[i] = c
DigitVal(c) == (CHOOSE i \in 1..10 : DigitChar[i] = c) - 1

RECURSIVE Strip(_)
Strip(s) ==
    IF s = <<>> THEN s
    ELSE IF Head(s) = " " THEN Strip(Tail(s))
    ELSE IF s[Len(s)] = " " THEN Strip(SubSeq(s, 1, Len(s) - 1))
    ELSE s

RECURSIVE DigitsVal(_)
DigitsVal(s) ==
    IF s = <<>> THEN 0 ELSE 10 * DigitsVal(SubSeq(s, 1, Len(s) - 1)) + DigitVal(s[Len(s)])

\* int(s) for a str: surrounding blanks, an optional sign, then decimal digits;
\* anything else is a ValueError (ok = FALSE)
int_of_str(s) ==
    LET b == Strip(s)
        signed == b # <<>> /\ Head(b) \in {"-", "+"}
        ds == IF signed THEN Tail(b) ELSE b
    IN  IF ds = <<>> \/ \E i \in 1..Len(ds) : ~IsDigit(ds[i])
        THEN [ok |-> FALSE, v |-> 0]
        ELSE [ok |-> TRUE,
              v |-> IF signed /\ Head(b) = "-" THEN 0 - DigitsVal(ds) ELSE DigitsVal(ds)]

\* int(x) for a JSON value: TypeError for null, lists and objects
int(j) ==
    IF j.t = "int" THEN [ok |-> TRUE, v |-> j.n]
    ELSE IF j.t = "str" THEN int_of_str(j.s)
    ELSE [ok |-> FALSE, v |-> 0]

\* truth value of a JSON value in "x or default"
JTruthy(j) ==
    CASE j.t = "int"  -> j.n # 0
      [] j.t = "str"  -> j.s # <<>>
      [] j.t = "list" -> j.l # <<>>
      [] j.t = "obj"  -> j.m # <<>>
      [] OTHER        -> FALSE

\* data.get(key, default) or default
GetOr(member, default) ==
    LET got == IF member.t = "missing" THEN default ELSE member
    IN  IF JTruthy(got) THEN got ELSE default

\* keys of a dict in ascending order (the order of the members in the file;
\* reading does not depend on it, every key being written once)
RECURSIVE SortedKeys(_)
SortedKeys(S) ==
    IF S = {} THEN <<>>
    ELSE LET m == CHOOSE x \in S : \A y \in S : x <= y
         IN  <<m>> \o SortedKeys(S \ {m})

\* (variant: the keys are written by their last digit only)
json_dump_lastdigit(q, s) ==
    LET ks == SortedKeys(DOMAIN s)
    IN  JTop(JList([i \in 1..Len(q) |-> JInt(q[i])]),
             JObj([i \in 1..Len(ks) |-> [k |-> str(ks[i] % 10), v |-> JInt(s[ks[i]])]]))

\* json.dump({"queue": queue, "sessions": sessions}): int keys become strings
json_dump(q, s) ==
    LET ks == SortedKeys(DOMAIN s)
    IN  JTop(JList([i \in 1..Len(q) |-> JInt(q[i])]),
             JObj([i \in 1..Len(ks) |-> [k |-> str(ks[i]), v |-> JInt(s[ks[i]])]]))

Absent == [kind |-> "absent", data |-> JNotDict]   \* os.path.exists(STATE_FILE) is False
Garbage == [kind |-> "text", data |-> JNotDict]    \* content json.load rejects (also a truncated write)
JsonFile(j) == [kind |-> "json", data |-> j]

-----------------------------------------------------------------------------
(* State store *)

\* the dict comprehension {int(k): int(v) for k, v in raw_sessions.items()};
\* a later member with the same int(k) overwrites an earlier one
RECURSIVE ConvertSessions(_)
ConvertSessions(m) ==
    IF m = <<>> THEN [ok |-> TRUE, d |-> EmptyDict]
    ELSE LET rest == ConvertSessions(SubSeq(m, 1, Len(m) - 1))
             e == m[Len(m)]
             k == int_of_str(e.k)
             v == int(e.v)
         IN  IF rest.ok /\ k.ok /\ v.ok
             THEN [ok |-> TRUE, d |-> DictSet(rest.d, k.v, v.v)]
             ELSE [ok |-> FALSE, d |-> EmptyDict]

\* the in-memory list for a JSON list of integers
PyList(j) == [i \in 1..Len(j.l) |-> j.l[i].n]

\* The try-body of load_state for an existing file: the values of the globals
\* when the body ends or raises.  q is the value bound to queue (a JSON value).
TryLoad(f) ==
    LET fresh == [raised |-> TRUE, q |-> JList(<<>>), sessions |-> EmptyDict]
    IN  IF f.kind = "text" THEN fresh                           \* json.load raises
        ELSE IF f.data.t # "dict" THEN fresh                    \* data.get raises
        ELSE LET q == GetOr(f.data.queue, JList(<<>>))
                 raw == GetOr(f.data.sessions, JObj(<<>>))
             IN  IF raw.t # "obj"                               \* .items() raises
                 THEN [raised |-> TRUE, q |-> q, sessions |-> EmptyDict]
                 ELSE LET c == ConvertSessions(raw.m)
                      IN  IF ~c.ok                              \* int() raises
                          THEN [raised |-> TRUE, q |-> q, sessions |-> EmptyDict]
                          ELSE [raised |-> q.t \notin {"list", "obj", "str"},   \* len(queue)
                                q |-> q, sessions |-> c.d]

\* (variant: the except branch resets sessions only)
load_state_partial(f) ==
    IF f.kind = "absent"
    THEN [raised |-> FALSE, queue |-> <<>>, sessions |-> EmptyDict]
    ELSE LET r == TryLoad(f)
         IN  IF r.raised
             THEN [raised |-> TRUE, queue |-> IF r.q.t = "list" THEN PyList(r.q) ELSE <<>>,
                   sessions |-> EmptyDict]
             ELSE [raised |-> FALSE, queue |-> PyList(r.q), sessions |-> r.sessions]

\* load_state() on the globals of a fresh process
load_state(f) ==
    IF f.kind = "absent"
    THEN [raised |-> FALSE, queue |-> <<>>, sessions |-> EmptyDict]
    ELSE LET r == TryLoad(f)
         IN  IF r.raised
             THEN [raised |-> TRUE, queue |-> <<>>, sessions |-> EmptyDict]
             ELSE [raised |-> FALSE, queue |-> PyList(r.q), sessions |-> r.sessions]

\* What a failing or succeeding write does to the file
DiskModes == {"ok", "openfail", "writefail"}

\* save_state() on the store s = [queue, sessions, state_file, writeFailed]
save_state(s, d) ==
    CASE d = "ok"        -> [s EXCEPT !.state_file = JsonFile(json_dump(s.queue, s.sessions))]
      [] d = "openfail"  -> [s EXCEPT !.writeFailed = TRUE]
      [] d = "writefail" -> [s EXCEPT !.state_file = Garbage, !.writeFailed = TRUE]

-----------------------------------------------------------------------------
(* Matchmaker *)

pair(s, a, b, d) ==
    save_state([s EXCEPT !.sessions = DictSet(DictSet(s.sessions, a, b), b, a)], d)

\* (variant: the reverse entry is left in place)
unpair_oneway(s, uid, d) ==
    [s |-> save_state([s EXCEPT !.sessions = DictPop(s.sessions, uid)], d),
     ret |-> DictGet(s.sessions, uid)]

unpair(s, uid, d) ==
    LET other == DictGet(s.sessions, uid)
        s1 == DictPop(s.sessions, uid)
        s2 == IF Truthy(other) THEN DictPop(s1, other[1]) ELSE s1
    IN  [s |-> save_state([s EXCEPT !.sessions = s2], d), ret |-> other]

\* (variant: the head of the queue is read but not popped)
find_partner_peek(s, uid, d) ==
    IF uid \in DOMAIN s.sessions
    THEN [s |-> s, ret |-> Some(s.sessions[uid])]
    ELSE LET q1 == ListRemove(s.queue, uid)
         IN  IF q1 # <<>>
             THEN [s |-> pair([s EXCEPT !.queue = q1], uid, Head(q1), d),
                   ret |-> Some(Head(q1))]
             ELSE [s |-> save_state([s EXCEPT !.queue = Append(q1, uid)], d),
                   ret |-> None]

\* (variant: queue.pop() takes the tail)
find_partner_lifo(s, uid, d) ==
    IF uid \in DOMAIN s.sessions
    THEN [s |-> s, ret |-> Some(s.sessions[uid])]
    ELSE LET q1 == ListRemove(s.queue, uid)
         IN  IF q1 # <<>>
             THEN [s |-> pair([s EXCEPT !.queue = SubSeq(q1, 1, Len(q1) - 1)],
                              uid, q1[Len(q1)], d),
                   ret |-> Some(q1[Len(q1)])]
             ELSE [s |-> save_state([s EXCEPT !.queue = Append(q1, uid)], d),
                   ret |-> None]

\* (variant: no early return for a paired user)
find_partner_noreturn(s, uid, d) ==
    LET q1 == ListRemove(s.queue, uid)
    IN  IF q1 # <<>>
        THEN [s |-> pair([s EXCEPT !.queue = Tail(q1)], uid, Head(q1), d),
              ret |-> Some(Head(q1))]
        ELSE [s |-> save_state([s EXCEPT !.queue = Append(q1, uid)], d),
              ret |-> None]

find_partner(s, uid, d) ==
    IF uid \in DOMAIN s.sessions
    THEN [s |-> s, ret |-> Some(s.sessions[uid])]
    ELSE LET q1 == ListRemove(s.queue, uid)
         IN  IF q1 # <<>>
             THEN [s |-> pair([s EXCEPT !.queue = Tail(q1)], uid, Head(q1), d),
                   ret |-> Some(Head(q1))]
             ELSE [s |-> save_state([s EXCEPT !.queue = Append(q1, uid)], d),
                   ret |-> None]

\* the store as a record, and back
Store == [queue |-> queue, sessions |-> sessions,
          state_file |-> state_file, writeFailed |-> writeFailed]

SetStore(s) ==
    /\ queue' = s.queue
    /\ sessions' = s.sessions
    /\ state_file' = s.state_file
    /\ writeFailed' = s.writeFailed

is_admin(uid) == uid \in ADMIN_IDS

NoInput == [slash |-> FALSE, att |-> FALSE]

\* what cmd_status reports for uid
status(uid) ==
    IF uid \in DOMAIN sessions THEN "connected"
    ELSE IF InList(queue, uid) THEN "searching"
    ELSE "idle"

\* the record of a handler: op and uid name it, before is the status of uid when
\* it began, ret and old are what it got from find_partner / unpair
Record(op, uid, before, ret, old, sent, raised, throttled, msg) ==
    [op |-> op, uid |-> uid, before |-> before, ret |-> ret, old |-> old,
     sent |-> sent, raised |-> raised, throttled |-> throttled, msg |-> msg]

Idle(op) == Record(op, 0, "none", None, None, <<>>, FALSE, FALSE, NoInput)

Done(op, uid, ret, old) ==
    last' = Record(op, uid, status(uid), ret, old, <<>>, FALSE, FALSE, NoInput)

-----------------------------------------------------------------------------
(* Entry point and command handlers *)

\* __main__: load_state(), then the bot starts polling
Main ==
    /\ phase = "boot"
    /\ LET r == load_state(state_file)
       IN  /\ queue' = r.queue
           /\ sessions' = r.sessions
           /\ last' = [Idle("load_state") EXCEPT !.raised = r.raised]
    /\ phase' = "run"
    /\ UNCHANGED <<last_time, state_file, writeFailed, clock, ADMIN_IDS, GROUP_ID, relayed, pending>>

\* the process is stopped and started again: the globals are initialised anew
Restart ==
    /\ phase = "run"
    /\ phase' = "boot"
    /\ queue' = <<>>
    /\ sessions' = EmptyDict
    /\ last_time' = EmptyDict
    /\ relayed' = EmptyDict
    /\ pending' = EmptyDict
    /\ last' = Idle("exit")
    /\ UNCHANGED <<state_file, writeFailed, clock, ADMIN_IDS, GROUP_ID>>

cmd_anon_start(uid, d) ==
    /\ phase = "run"
    /\ LET r == find_partner(Store, uid, d)
       IN  /\ SetStore(r.s)
           /\ Done("anon_start", uid, r.ret, None)
    /\ UNCHANGED <<phase, last_time, clock, ADMIN_IDS, GROUP_ID, relayed, pending>>

\* (variant: the session is not ended first)
cmd_anon_next_nounpair(uid, d1, d2) ==
    /\ phase = "run"
    /\ LET r == find_partner(Store, uid, d2)
       IN  /\ SetStore(r.s)
           /\ Done("anon_next", uid, r.ret, None)
    /\ UNCHANGED <<phase, last_time, clock, ADMIN_IDS, GROUP_ID, relayed, pending>>

\* (variant: the former partner is put in the queue before the search)
cmd_anon_next_requeue(uid, d1, d2) ==
    /\ phase = "run"
    /\ LET u == unpair(Store, uid, d1)
           q == IF Truthy(u.ret) THEN Append(u.s.queue, u.ret[1]) ELSE u.s.queue
           r == find_partner([u.s EXCEPT !.queue = q], uid, d2)
       IN  /\ SetStore(r.s)
           /\ Done("anon_next", uid, r.ret, u.ret)
    /\ UNCHANGED <<phase, last_time, clock, ADMIN_IDS, GROUP_ID, relayed, pending>>

cmd_anon_next(uid, d1, d2) ==
    /\ phase = "run"
    /\ LET u == unpair(Store, uid, d1)
           r == find_partner(u.s, uid, d2)
       IN  /\ SetStore(r.s)
           /\ Done("anon_next", uid, r.ret, u.ret)
    /\ UNCHANGED <<phase, last_time, clock, ADMIN_IDS, GROUP_ID, relayed, pending>>

\* cmd_anon_stop on the store s: unpair, then the removal from the queue
anon_stop(s, uid, d1, d2) ==
    LET u == unpair(s, uid, d1)
    IN  [s |-> IF InList(u.s.queue, uid)
               THEN save_state([u.s EXCEPT !.queue = ListRemove(u.s.queue, uid)], d2)
               ELSE u.s,
         ret |-> u.ret]

\* (variant: the sender is not taken out of the queue)
cmd_anon_stop_keepqueue(uid, d1, d2) ==
    /\ phase = "run"
    /\ LET u == unpair(Store, uid, d1)
       IN  /\ SetStore(u.s)
           /\ Done("anon_stop", uid, u.ret, None)
    /\ UNCHANGED <<phase, last_time, clock, ADMIN_IDS, GROUP_ID, relayed, pending>>

\* (variant: the former partner is put back in the queue)
cmd_anon_stop_requeue(uid, d1, d2) ==
    /\ phase = "run"
    /\ LET u == unpair(Store, uid, d1)
           q == IF Truthy(u.ret) THEN Append(u.s.queue, u.ret[1]) ELSE u.s.queue
           s2 == IF InList(q, uid)
                 THEN save_state([u.s EXCEPT !.queue = ListRemove(q, uid)], d2)
                 ELSE save_state([u.s EXCEPT !.queue = q], d2)
       IN  /\ SetStore(s2)
           /\ Done("anon_stop", uid, u.ret, None)
    /\ UNCHANGED <<phase, last_time, clock, ADMIN_IDS, GROUP_ID, relayed, pending>>

\* (variant: the queue removal is not saved)
cmd_anon_stop_nosave(uid, d1, d2) ==
    /\ phase = "run"
    /\ LET u == unpair(Store, uid, d1)
       IN  /\ SetStore([u.s EXCEPT !.queue = ListRemove(u.s.queue, uid)])
           /\ Done("anon_stop", uid, u.ret, None)
    /\ UNCHANGED <<phase, last_time, clock, ADMIN_IDS, GROUP_ID, relayed, pending>>

cmd_anon_stop(uid, d1, d2) ==
    /\ phase = "run"
    /\ LET u == unpair(Store, uid, d1)
           s2 == IF InList(u.s.queue, uid)
                 THEN save_state([u.s EXCEPT !.queue = ListRemove(u.s.queue, uid)], d2)
                 ELSE u.s
       IN  /\ SetStore(s2)
           /\ Done("anon_stop", uid, u.ret, None)
    /\ UNCHANGED <<phase, last_time, clock, ADMIN_IDS, GROUP_ID, relayed, pending>>

cmd_clear_state(uid, d) ==
    /\ phase = "run"
    /\ IF ~is_admin(uid)
       THEN UNCHANGED <<queue, sessions, state_file, writeFailed>>
       ELSE /\ queue' = <<>>
            /\ sessions' = EmptyDict
            /\ IF state_file.kind = "absent"
               THEN UNCHANGED <<state_file, writeFailed>>
               ELSE IF d = "ok"
                    THEN state_file' = Absent /\ UNCHANGED writeFailed
                    ELSE writeFailed' = TRUE /\ UNCHANGED state_file
    /\ Done("clear_state", uid, None, None)
    /\ UNCHANGED <<phase, last_time, clock, ADMIN_IDS, GROUP_ID, relayed, pending>>

-----------------------------------------------------------------------------
(* Rate limiter, admin notifier and relay dispatcher *)

RATE_LIMIT == 1300    \* bot.py:63, 1.3 seconds in milliseconds

\* (variant: a throttled call is recorded too)
rate_limited_sliding(lt, uid, now) ==
    LET prev == DictGet(lt, uid)
    IN  [ret |-> Truthy(prev) /\ (now - prev[1]) < RATE_LIMIT,
         last_time |-> DictSet(lt, uid, now)]

\* (variant: the comparison is inverted)
rate_limited_inverted(lt, uid, now) ==
    LET prev == DictGet(lt, uid)
    IN  IF Truthy(prev) /\ (now - prev[1]) > RATE_LIMIT
        THEN [ret |-> TRUE, last_time |-> lt]
        ELSE [ret |-> FALSE, last_time |-> DictSet(lt, uid, now)]

\* rate_limited(uid) at time now, on the ledger lt
rate_limited(lt, uid, now) ==
    LET prev == DictGet(lt, uid)
    IN  IF Truthy(prev) /\ (now - prev[1]) < RATE_LIMIT
        THEN [ret |-> TRUE, last_time |-> lt]
        ELSE [ret |-> FALSE, last_time |-> DictSet(lt, uid, now)]

Sent(kind, to, ok) == [kind |-> kind, to |-> to, ok |-> ok]

\* notify_admins: one send_message per administrator, failures ignored
notify_admins ==
    LET as == SortedKeys(ADMIN_IDS)
    IN  [i \in 1..Len(as) |-> Sent("admin", as[i], TRUE)]

\* A non-command update: slash = the text starts with "/", att = it carries an
\* attachment, fail = the transport calls that raise while it is handled
\* (a text message has no attachment; forward_message is only called for one)
Messages ==
    {m \in [slash : BOOLEAN, att : BOOLEAN, fail : SUBSET {"forward", "copy", "prompt"}] :
        /\ m.slash => (~m.att /\ m.fail = {})
        /\ "forward" \in m.fail => m.att}

\* step 1 (bot.py:315-320): the moderation mirror
mirror(m) ==
    IF Truthy(GROUP_ID) /\ m.att
    THEN <<Sent("forward", GROUP_ID[1], "forward" \notin m.fail)>>
         \o (IF "forward" \in m.fail THEN notify_admins ELSE <<>>)
    ELSE <<>>

\* (variant: the copy goes to the sender's own chat)
partner_relay_echo(uid, m) ==
    <<Sent("copy", uid, "copy" \notin m.fail)>>
    \o (IF "copy" \in m.fail THEN notify_admins ELSE <<>>)

\* step 2, not throttled (bot.py:331-338): the copy to the partner
partner_relay(uid, m) ==
    LET partner == DictGet(sessions, uid)
    IN  IF Truthy(partner)
        THEN <<Sent("copy", partner[1], "copy" \notin m.fail)>>
             \o (IF "copy" \in m.fail THEN notify_admins ELSE <<>>)
        ELSE <<>>

\* step 3 (bot.py:342-346): the connect prompt, then the menu
connect_prompt(uid, m) ==
    IF "prompt" \in m.fail
    THEN <<Sent("prompt", uid, FALSE)>>
    ELSE <<Sent("prompt", uid, TRUE), Sent("menu", uid, TRUE)>>

\* (variant: an unpaired sender is put through find_partner)
handle_all_messages_enqueue(uid, m) ==
    /\ phase = "run"
    /\ LET rl == rate_limited(last_time, uid, clock)
           relay == partner_relay(uid, m)
           out(sent, thr) ==
               last' = Record("message", uid, status(uid), None, None, sent, FALSE, thr,
                              [slash |-> m.slash, att |-> m.att])
       IN  IF m.slash
           THEN out(<<>>, FALSE) /\ UNCHANGED <<last_time, relayed, queue, sessions, state_file, writeFailed>>
           ELSE IF uid \in DOMAIN sessions
           THEN IF rl.ret
                THEN /\ out(mirror(m) \o <<Sent("action", uid, TRUE)>>, TRUE)
                     /\ last_time' = rl.last_time
                     /\ UNCHANGED <<relayed, queue, sessions, state_file, writeFailed>>
                ELSE /\ out(mirror(m) \o relay, FALSE)
                     /\ last_time' = rl.last_time
                     /\ relayed' = IF \E i \in 1..Len(relay) : relay[i].kind = "copy"
                                   THEN DictSet(relayed, uid, clock)
                                   ELSE relayed
                     /\ UNCHANGED <<queue, sessions, state_file, writeFailed>>
           ELSE /\ out(mirror(m) \o connect_prompt(uid, m), FALSE)
                /\ SetStore(find_partner(Store, uid, "ok").s)
                /\ UNCHANGED <<last_time, relayed>>
    /\ UNCHANGED <<phase, clock, ADMIN_IDS, GROUP_ID, pending>>

\* (variant: the mirror is placed after the rate-limit check)
handle_all_messages_mirror_late(uid, m) ==
    /\ phase = "run"
    /\ LET rl == rate_limited(last_time, uid, clock)
           relay == partner_relay(uid, m)
           out(sent, thr) ==
               last' = Record("message", uid, status(uid), None, None, sent, FALSE, thr,
                              [slash |-> m.slash, att |-> m.att])
       IN  IF m.slash
           THEN out(<<>>, FALSE) /\ UNCHANGED <<last_time, relayed>>
           ELSE IF uid \in DOMAIN sessions
           THEN IF rl.ret
                THEN /\ out(<<Sent("action", uid, TRUE)>>, TRUE)
                     /\ last_time' = rl.last_time
                     /\ UNCHANGED relayed
                ELSE /\ out(mirror(m) \o relay, FALSE)
                     /\ last_time' = rl.last_time
                     /\ relayed' = IF \E i \in 1..Len(relay) : relay[i].kind = "copy"
                                   THEN DictSet(relayed, uid, clock)
                                   ELSE relayed
           ELSE out(mirror(m) \o connect_prompt(uid, m), FALSE)
                /\ UNCHANGED <<last_time, relayed>>
    /\ UNCHANGED <<phase, queue, sessions, state_file, writeFailed, clock,
                   ADMIN_IDS, GROUP_ID, pending>>

handle_all_messages(uid, m) ==
    /\ phase = "run"
    /\ LET rl == rate_limited(last_time, uid, clock)
           relay == partner_relay(uid, m)
           out(sent, thr) ==
               last' = Record("message", uid, status(uid), None, None, sent, FALSE, thr,
                              [slash |-> m.slash, att |-> m.att])
       IN  IF m.slash
           THEN out(<<>>, FALSE) /\ UNCHANGED <<last_time, relayed>>
           ELSE IF uid \in DOMAIN sessions
           THEN IF rl.ret
                THEN /\ out(mirror(m) \o <<Sent("action", uid, TRUE)>>, TRUE)
                     /\ last_time' = rl.last_time
                     /\ UNCHANGED relayed
                ELSE /\ out(mirror(m) \o relay, FALSE)
                     /\ last_time' = rl.last_time
                     /\ relayed' = IF \E i \in 1..Len(relay) : relay[i].kind = "copy"
                                   THEN DictSet(relayed, uid, clock)
                                   ELSE relayed
           ELSE out(mirror(m) \o connect_prompt(uid, m), FALSE)
                /\ UNCHANGED <<last_time, relayed>>
    /\ UNCHANGED <<phase, queue, sessions, state_file, writeFailed, clock,
                   ADMIN_IDS, GROUP_ID, pending>>

\* time passes
Tick ==
    /\ clock < TickMs * (MaxTicks + 1)
    /\ clock' = clock + TickMs
    /\ last' = Idle("tick")
    /\ UNCHANGED <<phase, queue, sessions, last_time, state_file, writeFailed,
                   ADMIN_IDS, GROUP_ID, relayed, pending>>

-----------------------------------------------------------------------------
(* Specifications *)

AdminSets == {{}, {FirstUser, FirstUser + MaxUser}}
\* GROUP_ID unset, or the (negative) id of a group chat
GroupIds == {None, Some(0 - 100)}

\* the state after the module is imported (bot.py:47-74), with f on storage
Boot(f, admins, group) ==
    /\ phase = "boot"
    /\ queue = <<>>
    /\ sessions = EmptyDict
    /\ last_time = EmptyDict
    /\ relayed = EmptyDict
    /\ pending = EmptyDict
    /\ state_file = f
    /\ writeFailed = FALSE
    /\ clock = TickMs
    /\ ADMIN_IDS = admins
    /\ GROUP_ID = group
    /\ last = Idle("import")

Commands(D) ==
    \E uid \in Users :
        \/ \E d \in D : cmd_anon_start(uid, d)
        \/ \E d1, d2 \in D : cmd_anon_next(uid, d1, d2)
        \/ \E d1, d2 \in D : cmd_anon_stop(uid, d1, d2)
        \/ \E d \in D : cmd_clear_state(uid, d)

Dispatch == \E uid \in Users : \E m \in Messages : handle_all_messages(uid, m)

\* Matchmaking and persistence: a first run (no snapshot on storage), commands
\* under every behaviour of the storage, restarts
Init == \E a \in AdminSets : Boot(Absent, a, None)

Next ==
    \/ Main
    \/ Restart
    \/ Commands(DiskModes)

Spec == Init /\ [][Next]_vars


\* Handlers of different users interleaved at their awaits. Between the state
\* accesses of a handler there is an await only in cmd_anon_next and
\* cmd_anon_stop, and only when unpair returned a partner (bot.py:234-240,
\* 259-265): the handler is then suspended, and any handler of another user
\* may run before it goes on. A user has one handler at a time.
Unsuspended(uid) == uid \notin DOMAIN pending

Suspend(op, uid, old) ==
    /\ pending' = DictSet(pending, uid, [op |-> op, old |-> old])
    /\ last' = Record(op, uid, status(uid), None, old, <<>>, FALSE, FALSE, NoInput)

\* cmd_anon_next up to its first await (bot.py:232-236)
cmd_anon_next_unpair(uid) ==
    /\ phase = "run"
    /\ Unsuspended(uid)
    /\ LET u == unpair(Store, uid, "ok")
       IN  /\ Truthy(u.ret)
           /\ SetStore(u.s)
           /\ Suspend("anon_next_unpair", uid, u.ret)
    /\ UNCHANGED <<phase, last_time, clock, ADMIN_IDS, GROUP_ID, relayed>>

\* (variant: the handler pairs again with the partner it remembers)
cmd_anon_next_find_stale(uid) ==
    /\ phase = "run"
    /\ uid \in DOMAIN pending
    /\ pending[uid].op = "anon_next_unpair"
    /\ SetStore(pair(Store, uid, pending[uid].old[1], "ok"))
    /\ Done("anon_next", uid, pending[uid].old, pending[uid].old)
    /\ pending' = DictPop(pending, uid)
    /\ UNCHANGED <<phase, last_time, clock, ADMIN_IDS, GROUP_ID, relayed>>

\* cmd_anon_next from the end of those awaits (bot.py:241)
cmd_anon_next_find(uid) ==
    /\ phase = "run"
    /\ uid \in DOMAIN pending
    /\ pending[uid].op = "anon_next_unpair"
    /\ LET r == find_partner(Store, uid, "ok")
       IN  /\ SetStore(r.s)
           /\ Done("anon_next", uid, r.ret, pending[uid].old)
    /\ pending' = DictPop(pending, uid)
    /\ UNCHANGED <<phase, last_time, clock, ADMIN_IDS, GROUP_ID, relayed>>

\* cmd_anon_stop up to its first await (bot.py:257-261)
cmd_anon_stop_unpair(uid) ==
    /\ phase = "run"
    /\ Unsuspended(uid)
    /\ LET u == unpair(Store, uid, "ok")
       IN  /\ Truthy(u.ret)
           /\ SetStore(u.s)
           /\ Suspend("anon_stop_unpair", uid, u.ret)
    /\ UNCHANGED <<phase, last_time, clock, ADMIN_IDS, GROUP_ID, relayed>>

\* cmd_anon_stop from the end of those awaits (bot.py:267-271)
cmd_anon_stop_remove(uid) ==
    /\ phase = "run"
    /\ uid \in DOMAIN pending
    /\ pending[uid].op = "anon_stop_unpair"
    /\ SetStore(IF InList(queue, uid)
                THEN save_state([Store EXCEPT !.queue = ListRemove(queue, uid)], "ok")
                ELSE Store)
    /\ Done("anon_stop", uid, pending[uid].old, None)
    /\ pending' = DictPop(pending, uid)
    /\ UNCHANGED <<phase, last_time, clock, ADMIN_IDS, GROUP_ID, relayed>>

\* a handler that reaches no await between its state accesses runs as one step
Unpaired(uid) == ~Truthy(DictGet(sessions, uid))

Interleaved ==
    \E uid \in Users :
        \/ Unsuspended(uid) /\ cmd_anon_start(uid, "ok")
        \/ Unsuspended(uid) /\ Unpaired(uid) /\ cmd_anon_next(uid, "ok", "ok")
        \/ cmd_anon_next_unpair(uid)
        \/ cmd_anon_next_find(uid)
        \/ Unsuspended(uid) /\ Unpaired(uid) /\ cmd_anon_stop(uid, "ok", "ok")
        \/ cmd_anon_stop_unpair(uid)
        \/ cmd_anon_stop_remove(uid)
        \/ Unsuspended(uid) /\ cmd_clear_state(uid, "ok")

NextConc == Main \/ Interleaved

SpecConc == Init /\ [][NextConc]_vars

\* Relay: commands on a working storage, messages, the passage of time
InitRelay == \E a \in AdminSets : \E g \in GroupIds : Boot(Absent, a, g)

NextRelay ==
    \/ Main
    \/ Commands({"ok"})
    \/ Dispatch
    \/ Tick

SpecRelay == InitRelay /\ [][NextRelay]_vars

\* Snapshots found on storage at start: no file, text that is no JSON, JSON that
\* is no object, and objects whose "queue" is absent, null, a number or a list of
\* user ids and whose "sessions" is absent, null, a list or an object
RECURSIVE SeqsUpTo(_, _)
SeqsUpTo(S, n) ==
    IF n = 0 THEN {<<>>}
    ELSE LET shorter == SeqsUpTo(S, n - 1)
         IN  shorter \cup {Append(q, x) : q \in shorter, x \in S}

\* members "u": w for user ids u, w
SnapshotMembers == {[k |-> str(u), v |-> JInt(w)] : u, w \in Users}

\* members int() accepts in another spelling, or rejects
OddMembers ==
    {[k |-> <<" ">> \o str(FirstUser), v |-> JInt(FirstUser + 1)],
     [k |-> str(FirstUser), v |-> JStr(str(FirstUser + 1))],
     [k |-> <<"x">>, v |-> JInt(FirstUser)],
     [k |-> str(FirstUser), v |-> JNull]}

SnapshotQueues ==
    {JMissing, JNull, JInt(1)} \cup {JList(l) : l \in SeqsUpTo({JInt(u) : u \in Users}, MaxQueue)}

SnapshotSessions ==
    {JMissing, JNull, JList(<<JInt(FirstUser)>>)}
    \cup {JObj(m) : m \in SeqsUpTo(SnapshotMembers, MaxMembers)}
    \cup {JObj(<<x>>) : x \in OddMembers}
    \cup {JObj(<<[k |-> str(FirstUser), v |-> JInt(FirstUser)], x>>) : x \in OddMembers}

\* every queue with a few sessions, and every sessions with a few queues
FewQueues == {JMissing, JInt(1), JList(<<JInt(FirstUser)>>)}
FewSessions ==
    {JMissing, JList(<<JInt(FirstUser)>>),
     JObj(<<[k |-> str(FirstUser), v |-> JInt(FirstUser + 1)]>>)}

Snapshots ==
    {Absent, Garbage, JsonFile(JNotDict)}
    \cup {JsonFile(JTop(q, ss)) : q \in SnapshotQueues, ss \in FewSessions}
    \cup {JsonFile(JTop(q, ss)) : q \in FewQueues, ss \in SnapshotSessions}

\* Restore: a start on any of these snapshots, then commands on a working storage
InitRestore == \E f \in Snapshots : Boot(f, {}, None)

NextRestore ==
    \/ Main
    \/ Commands({"ok"})

SpecRestore == InitRestore /\ [][NextRestore]_vars

-----------------------------------------------------------------------------
(* Properties *)

\* C1: the Pairing Table is symmetric and irreflexive in every state reached
\* from the empty state by the commands (and restarts).
PairingSymmetric ==
    \A a \in DOMAIN sessions :
        /\ sessions[a] # a
        /\ sessions[a] \in DOMAIN sessions
        /\ sessions[sessions[a]] = a

\* a user has left one partner and been paired with another
PairingSymmetricWitness ==
    /\ last.op = "anon_next"
    /\ last.old # None
    /\ last.ret # None
    /\ sessions # EmptyDict

\* C2: the Waiting Queue holds no identifier twice, and none that is a key of
\* the Pairing Table.
QueueDisjoint ==
    /\ \A i, j \in 1..Len(queue) : i # j => queue[i] # queue[j]
    /\ \A i \in 1..Len(queue) : queue[i] \notin DOMAIN sessions

\* a waiting user asks again while two others are paired
QueueDisjointWitness ==
    /\ last.op = "anon_start"
    /\ last.before = "searching"
    /\ queue # <<>>
    /\ sessions # EmptyDict

\* C3: when a request by c creates a pairing, c's partner is the first user of
\* the queue other than c itself: nobody who waits was ahead of the partner.
FifoMatch ==
    [][\A c \in Users :
          ( /\ last'.uid = c
            /\ last'.ret # None
            /\ \/ last'.op = "anon_next"
               \/ last'.op = "anon_start" /\ c \notin DOMAIN sessions )
          => \E i \in 1..Len(queue) :
                /\ queue[i] = last'.ret[1]
                /\ \A j \in 1..(i - 1) : queue[j] = c]_vars

\* a pairing was made while a second user was waiting behind the partner
FifoMatchWitness ==
    /\ last.op = "anon_next"
    /\ last.ret # None
    /\ queue # <<>>
    /\ Head(queue) \notin {last.uid, last.ret[1]}

\* C4: find_partner for a paired user returns the partner and changes neither
\* the queue nor the pairing table (nor the snapshot).
IdempotentWhenPaired ==
    [][\A u \in Users :
          (last'.op = "anon_start" /\ last'.uid = u /\ u \in DOMAIN sessions)
          => /\ last'.ret = Some(sessions[u])
             /\ queue' = queue
             /\ sessions' = sessions
             /\ state_file' = state_file]_vars

\* a paired user has asked for a partner while somebody was waiting
IdempotentWhenPairedWitness ==
    /\ last.op = "anon_start"
    /\ last.before = "connected"
    /\ last.ret = Some(sessions[last.uid])
    /\ queue # <<>>

\* C5: save_state followed by load_state on a fresh process gives back the
\* queue, in order, and the pairing table as a dict of ints to ints.
RoundTrip ==
    load_state(JsonFile(json_dump(queue, sessions)))
        = [raised |-> FALSE, queue |-> queue, sessions |-> sessions]

\* a saved state with a waiting user and a pair with two-digit ids
RoundTripWitness ==
    /\ queue # <<>>
    /\ \E a \in DOMAIN sessions : a >= 10
    /\ state_file = JsonFile(json_dump(queue, sessions))

\* C6: between handlers, as long as no write has failed, the snapshot decodes
\* to the queue and pairing table in memory (no file decoding to the empty
\* state), so that a restart restores them.
Persisted ==
    (phase = "run" /\ ~writeFailed)
    => load_state(state_file) = [raised |-> FALSE, queue |-> queue, sessions |-> sessions]

\* a restart has restored a waiting user and a pair
PersistedWitness ==
    /\ last.op = "load_state"
    /\ ~writeFailed
    /\ queue # <<>>
    /\ sessions # EmptyDict

\* C7: load_state with no snapshot, or with one on which its try-body raises,
\* ends with the bot running on an empty queue and an empty pairing table.
RestoreDegrades ==
    (last.op = "load_state" /\ (state_file.kind = "absent" \/ last.raised))
    => (phase = "run" /\ queue = <<>> /\ sessions = EmptyDict)

\* the body raised after a non-empty queue had been taken from the snapshot
RestoreDegradesWitness ==
    /\ last.op = "load_state"
    /\ last.raised
    /\ TryLoad(state_file).q.l # <<>>

\* C8: the state after load_state satisfies the data-model invariants.
RestoreValidates ==
    last.op = "load_state"
    => /\ \A a \in DOMAIN sessions :
            sessions[a] # a /\ sessions[a] \in DOMAIN sessions /\ sessions[sessions[a]] = a
       /\ \A i, j \in 1..Len(queue) : i # j => queue[i] # queue[j]
       /\ \A i \in 1..Len(queue) : queue[i] \notin DOMAIN sessions

\* C9: for a paired user u, a message is copied to the partner exactly when u
\* has had no copy made in this run, or at least RATE_LIMIT has passed since
\* the last one: of two attempts less than RATE_LIMIT apart at most one is
\* copied, and an attempt after the interval is copied.
RateLimitRelay ==
    [][\A u \in Users :
          ( /\ last'.op = "message"
            /\ last'.uid = u
            /\ ~last'.msg.slash
            /\ Truthy(DictGet(sessions, u)) )
          => LET since == DictGet(relayed, u)
                 due == since = None \/ clock - since[1] >= RATE_LIMIT
                 copies == {i \in 1..Len(last'.sent) : last'.sent[i].kind = "copy"}
             IN  /\ copies # {} => due
                 /\ due => \E i \in copies : last'.sent[i].to = sessions[u]
                 /\ ~due => last'.throttled]_vars

\* an attempt one tick after a copied one has been dropped
RateLimitRelayWitness ==
    /\ last.op = "message"
    /\ last.throttled
    /\ last.uid \in DOMAIN relayed
    /\ clock > relayed[last.uid]
    /\ clock - relayed[last.uid] < RATE_LIMIT

\* C10: a message of a paired user that is not throttled yields exactly one
\* copy_message, to the partner; no copy and no forward goes to another user;
\* no connect prompt is sent, nor is one sent for a throttled message.
RelayRouting ==
    (last.op = "message" /\ ~last.msg.slash /\ last.before = "connected")
    => LET sent == last.sent
           copies == {i \in 1..Len(sent) : sent[i].kind = "copy"}
       IN  /\ \A i \in 1..Len(sent) : sent[i].kind \notin {"prompt", "menu"}
           /\ \A i \in 1..Len(sent) :
                 (sent[i].kind \in {"copy", "forward"} /\ sent[i].to \in Users)
                 => sent[i].to = sessions[last.uid]
           /\ IF last.throttled THEN copies = {} ELSE Cardinality(copies) = 1

\* a paired user's attachment has been mirrored and copied to the partner
RelayRoutingWitness ==
    /\ last.op = "message"
    /\ last.before = "connected"
    /\ ~last.throttled
    /\ last.msg.att
    /\ Len(last.sent) = 2
    /\ last.sent[1].kind = "forward"
    /\ last.sent[2] = Sent("copy", sessions[last.uid], TRUE)

\* C11: handling a message never changes the matchmaking state: whoever the
\* sender is (paired, queued, idle), whatever the message (command text,
\* attachment or not, throttled or not), queue and sessions are after the step
\* what they were before it; and a payload from an unpaired sender is answered
\* with the connect prompt to that sender, who is not put in the queue.
HasSent(l, kind, to) == \E i \in 1..Len(l.sent) : l.sent[i].kind = kind /\ l.sent[i].to = to

DispatchFrame ==
    [][last'.op = "message" =>
          /\ queue' = queue
          /\ sessions' = sessions
          /\ (~last'.msg.slash /\ last'.uid \notin DOMAIN sessions) =>
                 /\ HasSent(last', "prompt", last'.uid)
                 /\ ~HasSent(last', "copy", last'.uid)
                 /\ InList(queue', last'.uid) = InList(queue, last'.uid)]_vars

DispatchFrameWitness ==
    /\ last.op = "message"
    /\ last.before = "idle"
    /\ queue # <<>>
    /\ sessions = EmptyDict
    /\ HasSent(last, "prompt", last.uid)

\* C12: the moderation mirror does not depend on the session or on the rate
\* limit: when GROUP_ID is set and the message carries an attachment, the first
\* call of the handler is a forward to GROUP_ID, for a paired, queued or idle
\* sender, throttled or not; the forward leaves the ledger alone (the ledger of
\* an unpaired or throttled sender is what it was).
MirrorIndependent ==
    [][(last'.op = "message" /\ last'.msg.att /\ Truthy(GROUP_ID)) =>
          /\ Len(last'.sent) >= 1
          /\ last'.sent[1].kind = "forward"
          /\ last'.sent[1].to = GROUP_ID[1]
          /\ (last'.uid \notin DOMAIN sessions \/ last'.throttled) => last_time' = last_time
          /\ \A v \in Users \ {last'.uid} : DictGet(last_time', v) = DictGet(last_time, v)]_vars

MirrorIndependentWitness ==
    /\ last.op = "message"
    /\ last.msg.att
    /\ last.throttled
    /\ HasSent(last, "forward", 0 - 100)

\* C13: postcondition of the stop command of U: U is no key of sessions and not
\* in queue; if U had a partner P, then P is what unpair returned, P is no key
\* of sessions either and P is not in queue; and a start command of an idle
\* user on an empty queue puts that user in the queue, with no partner.
StopPostcondition ==
    [][/\ last'.op = "anon_stop" =>
            /\ last'.uid \notin DOMAIN sessions'
            /\ ~InList(queue', last'.uid)
            /\ last'.ret = DictGet(sessions, last'.uid)
            /\ Truthy(last'.ret) =>
                  /\ last'.ret[1] \notin DOMAIN sessions'
                  /\ ~InList(queue', last'.ret[1])
       /\ (last'.op = "anon_start" /\ last'.uid \notin DOMAIN sessions /\ queue = <<>>) =>
            /\ queue' = <<last'.uid>>
            /\ last'.ret = None
            /\ sessions' = sessions]_vars

StopPostconditionWitness ==
    /\ last.op = "anon_stop"
    /\ last.before = "connected"
    /\ Truthy(last.ret)
    /\ sessions = EmptyDict
    /\ queue = <<>>

\* C14: the next command is the stop command followed by find_partner: for a
\* paired, queued or idle U, queue, sessions and the partner returned after
\* cmd_anon_next equal those after the whole of cmd_anon_stop (its queue
\* removal included) followed by find_partner(U).
CycleIsStopThenStart ==
    [][last'.op = "anon_next" =>
          LET e == anon_stop(Store, last'.uid, "ok", "ok")
              r == find_partner(e.s, last'.uid, "ok")
          IN  /\ queue' = r.s.queue
              /\ sessions' = r.s.sessions
              /\ last'.ret = r.ret
              /\ last'.old = e.ret]_vars

CycleIsStopThenStartWitness ==
    /\ last.op = "anon_next"
    /\ last.old # None
    /\ last.ret # None
    /\ Len(SortedKeys(DOMAIN sessions)) = 2
    /\ queue = <<>>

\* C18: from the empty state the queue holds at most one user, and a start or
\* next command of an unpaired user while another user waits pairs the two in
\* that step.
QueueAtMostOne ==
    [][/\ Len(queue) <= 1
       /\ Len(queue') <= 1
       /\ (/\ last'.op \in {"anon_start", "anon_next"}
           /\ last'.uid \notin DOMAIN sessions
           /\ queue # <<>>
           /\ queue[1] # last'.uid) =>
              /\ last'.ret = Some(queue[1])
              /\ DictGet(sessions', last'.uid) = Some(queue[1])
              /\ DictGet(sessions', queue[1]) = Some(last'.uid)
              /\ queue' = <<>>]_vars

QueueAtMostOneWitness ==
    /\ last.op = "anon_start"
    /\ last.before = "idle"
    /\ last.ret # None
    /\ queue = <<>>
    /\ Len(SortedKeys(DOMAIN sessions)) = 2

\* C20: a next command run as one step never pairs U with the partner it has
\* just left: the partner found differs from the one unpair returned, and that
\* former partner is neither paired nor queued afterwards.
NoRepairing ==
    (last.op = "anon_next" /\ Truthy(last.old)) =>
        /\ last.ret # last.old
        /\ last.old[1] \notin DOMAIN sessions
        /\ ~InList(queue, last.old[1])

NoRepairingWitness ==
    /\ last.op = "anon_next"
    /\ Truthy(last.old)
    /\ last.ret = None
    /\ queue = <<last.uid>>

\* C16: a delivery failure is never surfaced to the sender: whoever the sender
\* and whatever ADMIN_IDS, when the copy to the partner or the forward to
\* GROUP_ID raises, no administrator notice goes to the sender, and queue and
\* sessions are unchanged.
DeliveryFailed(l) ==
    \E i \in 1..Len(l.sent) : l.sent[i].kind \in {"forward", "copy"} /\ ~l.sent[i].ok

DeliveryFailureSilent ==
    [][(last'.op = "message" /\ DeliveryFailed(last')) =>
          /\ ~HasSent(last', "admin", last'.uid)
          /\ queue' = queue
          /\ sessions' = sessions]_vars

\* C17: the rate limiter is per user and records accepted calls only: the
\* answer for U is the one computed from U's entry alone; a call that is not
\* throttled sets U's entry to the clock, a throttled call leaves the whole
\* ledger as it was, the entry of every other user is never touched, and no
\* other step changes the ledger.
OwnEntry(lt, uid) == [x \in DOMAIN lt \cap {uid} |-> lt[x]]

RateLimiterFrame ==
    [][IF last'.op = "message" /\ ~last'.msg.slash /\ last'.uid \in DOMAIN sessions
       THEN /\ last'.throttled = rate_limited(OwnEntry(last_time, last'.uid), last'.uid, clock).ret
            /\ last'.throttled => last_time' = last_time
            /\ ~last'.throttled => last_time' = DictSet(last_time, last'.uid, clock)
            /\ \A v \in Users \ {last'.uid} : DictGet(last_time', v) = DictGet(last_time, v)
       ELSE last_time' = last_time]_vars

\* a throttled call, then an accepted call of the same user one tick later,
\* while another user has an entry as well
RateLimiterFrameWitness ==
    /\ last.op = "message"
    /\ ~last.throttled
    /\ last.uid \in DOMAIN last_time
    /\ last_time[last.uid] = TickMs * 3
    /\ \E v \in DOMAIN last_time : v # last.uid /\ last_time[v] = TickMs * 2

\* C15: the mutating operations are atomic with respect to each other: while a
\* handler of one user is between its first and its last state access (between
\* the unpair and the find_partner of cmd_anon_next, or the unpair and the queue
\* removal of cmd_anon_stop), no step of another handler changes queue or
\* sessions.
HandlersAtomic ==
    [][\A u \in DOMAIN pending :
          u \in DOMAIN pending' => (queue' = queue /\ sessions' = sessions)]_vars

\* C19: with the handlers of different users interleaved at their awaits,
\* sessions stays symmetric and irreflexive, and queue duplicate-free and
\* disjoint from the keys of sessions, also while handlers are suspended.
InterleavedInvariants ==
    /\ \A a \in DOMAIN sessions :
          /\ sessions[a] # a
          /\ sessions[a] \in DOMAIN sessions
          /\ sessions[sessions[a]] = a
    /\ \A i, j \in 1..Len(queue) : queue[i] = queue[j] => i = j
    /\ \A i \in 1..Len(queue) : queue[i] \notin DOMAIN sessions

\* a next command that was overtaken while suspended: its former partner asked
\* for a partner in between, and the two are paired again
InterleavedInvariantsWitness ==
    /\ last.op = "anon_next"
    /\ Truthy(last.old)
    /\ last.ret = last.old
    /\ DictGet(sessions, last.uid) = last.old
    /\ pending # EmptyDict

====
